---- MODULE Spec2Model ----
(***************************************************************************)
(* Model of core/mongodb: the Database operation queue and its connection  *)
(* lifecycle (lib/database/index.js), the generic CRUD completions, the    *)
(* Timestamped getLatest and the AnimalDatabase upsert (animal.js).        *)
(*                                                                         *)
(* JavaScript runs every handler to completion, so the model keeps a call  *)
(* stack: external events (calls of the caller, adapter notifications,     *)
(* store completions) happen only while the stack is empty, and the steps  *)
(* of a running handler are forced one after the other.                    *)
(***************************************************************************)
EXTENDS Integers, Sequences, FiniteSets, TLC

\* ---------------------------------------------------------------- bounds
MaxExec == 3        \* exec(thunk) calls made by the caller
MaxCalls == 3       \* calls of the generic CRUD methods made by the caller
MaxAnimalCalls == 4 \* saveAnimal / findAnimals calls made by the caller
MaxClock == 2       \* ticks of the clock
MaxClear == 1       \* clear() calls made by the caller

\* ----------------------------------------------------------------- state
VARIABLES
    adapterState,   \* the adapter: closed, connecting, connected, disconnected
    onSuccess,      \* the constructor's onSuccess callback is still to be called
    isActive,       \* Database._isActive
    modelReady,     \* Database.MongooseModel has been generated
    queue,          \* Database._queue: thunk ids, head first
    thunks,         \* every thunk ever passed to exec: [kind, pre], id = index
    fired,          \* closure state of the re-entrant thunks that have called exec
    stack,          \* call stack of the running handler, top last
    invoked,        \* log of thunk invocations: [t, conn, act, model]
    issued,         \* store operations in the order they were issued (thunk ids)
    outstanding,    \* store operations issued whose completion is not delivered
    everConnected,  \* the adapter has reached connected at least once
    connectFrom,    \* history: the adapter states in which connect() was called
    halted,         \* history: 'disconnected' was emitted and the Database has
                    \* not since been active on a connected adapter
    cleared,        \* log of the remove({}) operations of clear: [conn, act]
    \* the animal collection behind a started AnimalDatabase
    records,        \* stored documents: [id, petId, data]; petId "" when absent
    nextId,         \* the next internal identifier the store assigns
    pending,        \* store operations issued and not yet completed
    replies,        \* the outcome of every completed call
    calls,          \* calls made so far
    firstPetId,     \* history: id -> the first petId stored for the document
    lastApplied,    \* history: petId -> data of the last find-and-update that matched
    \* the collection behind a started TimestampedDatabase
    coll,           \* stored documents: [id, ts, data]
    collNextId,     \* the next internal identifier the store assigns
    clock,          \* the current time
    crudPending,    \* store operations and cache saves not yet completed
    crudLog,        \* the outcome of every completed call
    cacheWrites,    \* the documents handed to the cache, in order
    crudCalls,      \* calls made so far
    \* one update call seen from the store's side
    saveProps,      \* the save payload the caller passes: field -> value
    writePayload    \* the write payloads handed to findOneAndUpdate, in order

dbVars == <<adapterState, onSuccess, isActive, modelReady, queue, thunks, fired,
            stack, invoked, issued, outstanding, everConnected, connectFrom,
            halted, cleared>>

animalVars == <<records, nextId, pending, replies, calls, firstPetId, lastApplied>>

crudVars == <<coll, collNextId, clock, crudPending, crudLog, cacheWrites, crudCalls>>

payloadVars == <<saveProps, writePayload>>

vars == <<dbVars, animalVars, crudVars, payloadVars>>

\* What a thunk does when invoked.  "op" is the thunk of a CRUD method: it
\* issues one asynchronous store operation and returns.  "noop" is the empty
\* thunk of onDBAdapterConnected.  "reenter" calls exec(g) from inside the
\* drain, once (its closure remembers).  "stop" calls stop().
\* "inner" is the thunk g a re-entrant thunk passes to exec: a CRUD thunk too.
CallerKinds == {"op", "reenter", "stop"}

Step(op, arg) == [op |-> op, arg |-> arg]

ThunkBody(t) ==
    CASE thunks[t].kind = "op"      -> <<Step("issue", t)>>
      [] thunks[t].kind = "inner"   -> <<Step("issue", t)>>
      [] thunks[t].kind = "noop"    -> <<>>
      [] thunks[t].kind = "stop"    -> <<Step("stop", 0)>>
      [] thunks[t].kind = "reenter" ->
            IF t \in fired THEN <<>>
            ELSE <<Step("fire", t), Step("exec", "inner")>>

\* A frame of the call stack: a function body being run (what is left of it,
\* whether processQueue shifts the queue when it returns, and the statement it
\* began with), or the loop of processQueue.
RunFrame(script, shift) ==
    [k |-> "run", rest |-> script, shift |-> shift,
     of |-> IF script = <<>> THEN "" ELSE script[1].op]
LoopFrame == [k |-> "loop", rest |-> <<>>, shift |-> FALSE, of |-> "processQueue"]

Top == stack[Len(stack)]
Pop(s) == SubSeq(s, 1, Len(s) - 1)
Idle == stack = <<>>

\* An exec that drains whenever the adapter is connected.
CanDrainConnected == adapterState = "connected"

\* index.js:79
CanDrain == adapterState = "connected" /\ isActive

\* A started Database on a connected adapter: the state the connect handler
\* of the constructor leaves when nothing was queued.
InitStarted ==
    /\ adapterState = "connected"
    /\ onSuccess = FALSE
    /\ isActive = TRUE
    /\ modelReady = TRUE
    /\ queue = <<>>
    /\ thunks = <<[kind |-> "noop", pre |-> FALSE]>>
    /\ fired = {}
    /\ stack = <<>>
    /\ invoked = <<[t |-> 1, conn |-> TRUE, act |-> TRUE, model |-> TRUE]>>
    /\ issued = <<>>
    /\ outstanding = {}
    /\ everConnected = TRUE
    /\ connectFrom = {"closed"}
    /\ halted = FALSE
    /\ cleared = <<>>

\* A processQueue that invokes the last entry instead of the first.
QueueLast(q) == q[Len(q)]

\* index.js:74, the entry processQueue invokes
QueueHead(q) == q[1]

\* A processQueue that removes with pop() instead of shift().
ShiftPop(q) == IF q = <<>> THEN q ELSE SubSeq(q, 1, Len(q) - 1)

\* index.js:75, Array.prototype.shift (nothing happens on an empty array)
Shift(q) == IF q = <<>> THEN q ELSE Tail(q)

InitDb ==
    /\ adapterState = "connecting"
    /\ onSuccess = TRUE
    /\ isActive = FALSE
    /\ modelReady = FALSE
    /\ queue = <<>>
    /\ thunks = <<>>
    /\ fired = {}
    /\ stack = <<>>
    /\ invoked = <<>>
    /\ issued = <<>>
    /\ outstanding = {}
    /\ everConnected = FALSE
    /\ connectFrom = {"closed"}
    /\ halted = FALSE
    /\ cleared = <<>>

\* ------------------------------------------------------- external events
CallerExecs == Cardinality({t \in DOMAIN thunks : thunks[t].kind \in CallerKinds})

\* The caller calls exec(func) with a function.
Exec(kind) ==
    /\ Idle
    /\ CallerExecs < MaxExec
    /\ stack' = <<RunFrame(<<Step("exec", kind)>>, FALSE)>>
    /\ UNCHANGED <<adapterState, onSuccess, isActive, modelReady, queue, thunks,
                   fired, invoked, issued, outstanding, everConnected>>
    /\ UNCHANGED <<connectFrom, halted, cleared, animalVars, crudVars, payloadVars>>

\* The caller calls exec() with no function: no argument, or one for which
\* _.isFunction is false (index.js:64-67); nothing is pushed.
ExecKick ==
    /\ Idle
    /\ stack' = <<RunFrame(<<Step("kick", 0)>>, FALSE)>>
    /\ UNCHANGED <<adapterState, onSuccess, isActive, modelReady, queue, thunks,
                   fired, invoked, issued, outstanding, everConnected>>
    /\ UNCHANGED <<connectFrom, halted, cleared, animalVars, crudVars, payloadVars>>

\* The caller calls start(): this._isActive = true; this.exec()
Start ==
    /\ Idle
    /\ stack' = <<RunFrame(<<Step("setActive", 0), Step("kick", 0)>>, FALSE)>>
    /\ UNCHANGED <<adapterState, onSuccess, isActive, modelReady, queue, thunks,
                   fired, invoked, issued, outstanding, everConnected>>
    /\ UNCHANGED <<connectFrom, halted, cleared, animalVars, crudVars, payloadVars>>

\* The caller calls stop(callback).
Stop ==
    /\ Idle
    /\ stack' = <<RunFrame(<<Step("stop", 0)>>, FALSE)>>
    /\ UNCHANGED <<adapterState, onSuccess, isActive, modelReady, queue, thunks,
                   fired, invoked, issued, outstanding, everConnected>>
    /\ UNCHANGED <<connectFrom, halted, cleared, animalVars, crudVars, payloadVars>>

\* animal.js:260-264: the caller calls clear(callback).  The remove is issued
\* on the spot, on whatever model the Database holds; without a model yet the
\* property access throws and nothing is issued.
Clear ==
    /\ Idle
    /\ Len(cleared) < MaxClear
    /\ cleared' = IF modelReady
                  THEN Append(cleared, [conn |-> adapterState = "connected",
                                        act |-> isActive])
                  ELSE cleared
    /\ UNCHANGED <<adapterState, onSuccess, isActive, modelReady, queue, thunks,
                   fired, stack, invoked, issued, outstanding, everConnected>>
    /\ UNCHANGED <<connectFrom, halted, animalVars, crudVars, payloadVars>>

\* A constructor callback that calls start() before it generates the model.
OnSuccessBodyStartFirst ==
    <<Step("setActive", 0), Step("kick", 0), Step("genModel", 0), Step("exec", "noop")>>

\* The onSuccess callback the constructor hands to onDBAdapterConnected:
\* generate the model, start(), then exec(function () {}).
OnSuccessBody ==
    <<Step("genModel", 0), Step("setActive", 0), Step("kick", 0), Step("exec", "noop")>>

\* The adapter's connect attempt succeeds.  The onSuccess of the request made
\* with one is called once; a connect() made by exec carries none.
ConnectSuccess ==
    /\ Idle
    /\ adapterState = "connecting"
    /\ adapterState' = "connected"
    /\ everConnected' = TRUE
    /\ onSuccess' = FALSE
    /\ halted' = (halted /\ ~isActive)
    /\ stack' = IF onSuccess THEN <<RunFrame(OnSuccessBody, FALSE)>> ELSE stack
    /\ UNCHANGED <<isActive, modelReady, queue, thunks, fired, invoked, issued, outstanding>>
    /\ UNCHANGED <<connectFrom, cleared, animalVars, crudVars, payloadVars>>

\* A 'disconnected' handler that leaves the flag alone.
OnDisconnectedNothing == isActive

\* index.js:125-127, the handler of 'disconnected': this._isActive = false
OnDisconnected == FALSE

\* The link drops: the adapter emits 'disconnected' and the handler of
\* onDBAdapterConnected clears _isActive.
Disconnect ==
    /\ Idle
    /\ adapterState = "connected"
    /\ adapterState' = "disconnected"
    /\ isActive' = OnDisconnected
    /\ halted' = TRUE
    /\ UNCHANGED <<onSuccess, modelReady, queue, thunks, fired, stack, invoked,
                   issued, outstanding, everConnected>>
    /\ UNCHANGED <<connectFrom, cleared, animalVars, crudVars, payloadVars>>

\* The store delivers the completion callback of an issued operation.
OpComplete(t) ==
    /\ Idle
    /\ t \in outstanding
    /\ outstanding' = outstanding \ {t}
    /\ UNCHANGED <<adapterState, onSuccess, isActive, modelReady, queue, thunks,
                   fired, stack, invoked, issued, everConnected>>
    /\ UNCHANGED <<connectFrom, halted, cleared, animalVars, crudVars, payloadVars>>

\* ------------------------------------------------ steps of the running handler
Running == ~Idle /\ Top.k = "run" /\ Top.rest # <<>>
Consumed == [stack EXCEPT ![Len(stack)].rest = Tail(@)]

\* The adapter's connect(): a closed adapter starts one attempt; otherwise
\* nothing is re-issued.
AdapterConnect(a) == IF a = "closed" THEN "connecting" ELSE a

\* The adapter's close(): the connection, or the attempt, is given up.
AdapterClose(a) == "closed"

\* An exec that connects whenever it cannot drain.
ShouldConnectUnlessDraining == ~CanDrain

\* index.js:79-81: else if (this._adapter.isClosed())
ShouldConnect == ~CanDrain /\ adapterState = "closed"

\* index.js:79-83, the end of exec: drain, or connect a closed adapter
ExecTailStack(s) == IF CanDrain THEN Append(s, LoopFrame) ELSE s
ExecTailAdapter ==
    IF ShouldConnect THEN AdapterConnect(adapterState) ELSE adapterState
ExecTailConnects ==
    IF ShouldConnect THEN connectFrom \cup {adapterState} ELSE connectFrom

\* exec(func) with a function: push it, then the end of exec.
StepExec ==
    /\ Running
    /\ Head(Top.rest).op = "exec"
    /\ thunks' = Append(thunks, [kind |-> Head(Top.rest).arg, pre |-> ~everConnected])
    /\ queue' = Append(queue, Len(thunks) + 1)
    /\ stack' = ExecTailStack(Consumed)
    /\ adapterState' = ExecTailAdapter
    /\ connectFrom' = ExecTailConnects
    /\ UNCHANGED <<onSuccess, isActive, modelReady, fired, invoked, issued,
                   outstanding, everConnected>>
    /\ UNCHANGED <<halted, cleared, animalVars, crudVars, payloadVars>>

\* exec() without a function: only the end of exec.
StepKick ==
    /\ Running
    /\ Head(Top.rest).op = "kick"
    /\ stack' = ExecTailStack(Consumed)
    /\ adapterState' = ExecTailAdapter
    /\ connectFrom' = ExecTailConnects
    /\ UNCHANGED <<onSuccess, isActive, modelReady, queue, thunks, fired, invoked,
                   issued, outstanding, everConnected>>
    /\ UNCHANGED <<halted, cleared, animalVars, crudVars, payloadVars>>

\* start(): this._isActive = true
StepSetActive ==
    /\ Running
    /\ Head(Top.rest).op = "setActive"
    /\ isActive' = TRUE
    /\ halted' = (halted /\ adapterState # "connected")
    /\ stack' = Consumed
    /\ UNCHANGED <<adapterState, onSuccess, modelReady, queue, thunks, fired,
                   invoked, issued, outstanding, everConnected>>
    /\ UNCHANGED <<connectFrom, cleared, animalVars, crudVars, payloadVars>>

\* stop(callback): this._isActive = false, and the adapter is closed if open
StepStop ==
    /\ Running
    /\ Head(Top.rest).op = "stop"
    /\ isActive' = FALSE
    /\ adapterState' = IF adapterState # "closed" THEN AdapterClose(adapterState)
                       ELSE adapterState
    /\ stack' = Consumed
    /\ UNCHANGED <<onSuccess, modelReady, queue, thunks, fired, invoked, issued,
                   outstanding, everConnected>>
    /\ UNCHANGED <<connectFrom, halted, cleared, animalVars, crudVars, payloadVars>>

\* this.MongooseModel = this.modelFactory.generateMongooseModel(adapter)
StepGenModel ==
    /\ Running
    /\ Head(Top.rest).op = "genModel"
    /\ modelReady' = TRUE
    /\ stack' = Consumed
    /\ UNCHANGED <<adapterState, onSuccess, isActive, queue, thunks, fired,
                   invoked, issued, outstanding, everConnected>>
    /\ UNCHANGED <<connectFrom, halted, cleared, animalVars, crudVars, payloadVars>>

\* A CRUD thunk issues its store operation and returns without waiting.
StepIssue ==
    /\ Running
    /\ Head(Top.rest).op = "issue"
    /\ issued' = Append(issued, Head(Top.rest).arg)
    /\ outstanding' = outstanding \cup {Head(Top.rest).arg}
    /\ stack' = Consumed
    /\ UNCHANGED <<adapterState, onSuccess, isActive, modelReady, queue, thunks,
                   fired, invoked, everConnected>>
    /\ UNCHANGED <<connectFrom, halted, cleared, animalVars, crudVars, payloadVars>>

\* The re-entrant thunk remembers that it has called exec.
StepFire ==
    /\ Running
    /\ Head(Top.rest).op = "fire"
    /\ fired' = fired \cup {Head(Top.rest).arg}
    /\ stack' = Consumed
    /\ UNCHANGED <<adapterState, onSuccess, isActive, modelReady, queue, thunks,
                   invoked, issued, outstanding, everConnected>>
    /\ UNCHANGED <<connectFrom, halted, cleared, animalVars, crudVars, payloadVars>>

\* A handler or thunk returns; processQueue then shifts the queue (index.js:75).
Return ==
    /\ ~Idle
    /\ Top.k = "run"
    /\ Top.rest = <<>>
    /\ queue' = IF Top.shift THEN Shift(queue) ELSE queue
    /\ stack' = Pop(stack)
    /\ UNCHANGED <<adapterState, onSuccess, isActive, modelReady, thunks, fired,
                   invoked, issued, outstanding, everConnected>>
    /\ UNCHANGED <<connectFrom, halted, cleared, animalVars, crudVars, payloadVars>>

\* processQueue: the queue is not empty, its head is invoked (index.js:73-74).
Invocation(t) ==
    [t |-> t, conn |-> adapterState = "connected", act |-> isActive, model |-> modelReady]

LoopInvoke ==
    /\ ~Idle
    /\ Top.k = "loop"
    /\ queue # <<>>
    /\ invoked' = Append(invoked, Invocation(QueueHead(queue)))
    /\ stack' = Append(stack, RunFrame(ThunkBody(QueueHead(queue)), TRUE))
    /\ UNCHANGED <<adapterState, onSuccess, isActive, modelReady, queue, thunks,
                   fired, issued, outstanding, everConnected>>
    /\ UNCHANGED <<connectFrom, halted, cleared, animalVars, crudVars, payloadVars>>

\* processQueue: the queue is empty, the loop and exec return (index.js:73).
LoopExit ==
    /\ ~Idle
    /\ Top.k = "loop"
    /\ queue = <<>>
    /\ stack' = Pop(stack)
    /\ UNCHANGED <<adapterState, onSuccess, isActive, modelReady, queue, thunks,
                   fired, invoked, issued, outstanding, everConnected>>
    /\ UNCHANGED <<connectFrom, halted, cleared, animalVars, crudVars, payloadVars>>

NextDb ==
    \/ \E kind \in CallerKinds : Exec(kind)
    \/ ExecKick
    \/ Start
    \/ Stop
    \/ ConnectSuccess
    \/ Disconnect
    \/ \E t \in outstanding : OpComplete(t)
    \/ StepExec
    \/ StepKick
    \/ StepSetActive
    \/ StepStop
    \/ StepGenModel
    \/ StepIssue
    \/ StepFire
    \/ Return
    \/ LoopInvoke
    \/ LoopExit


\* ------------------------------------------------ the animal collection
\* animal.js, on a started AnimalDatabase whose adapter is connected: exec runs
\* the thunk of saveAnimal / findAnimals at once, so a call issues its store
\* operation immediately; the store completes the operations in any order.
Names == {"Fido", "Rex"}
ForeignIds == {"abc"}

Digit(d) == <<"0", "1", "2", "3", "4", "5", "6", "7", "8", "9">>[d + 1]

\* _id.toString(): the string form of an internal identifier
RECURSIVE IdStr(_)
IdStr(n) == IF n < 10 THEN Digit(n) ELSE IdStr(n \div 10) \o Digit(n % 10)

InitAnimal ==
    /\ records = {}
    /\ nextId = 1
    /\ pending = {}
    /\ replies = {}
    /\ calls = 0
    /\ firstPetId = <<>>
    /\ lastApplied = [p \in {} |-> ""]

\* The outcome of a call: whether the store failed it, how often the caller's complete was called, whether
\* its first argument was an error and whether that was a DBError, whether the
\* completion handler threw, the documents reported as [id, petId], the same
\* documents as stored at that moment, and the ids the call inserted.
Reply(o, storeErr, delivered, err, wrapped, threw, reports, made, recs) ==
    [n |-> o.n, call |-> o.call, kind |-> o.kind, petId |-> o.petId,
     data |-> o.data, fromCreate |-> o.fromCreate, storeErr |-> storeErr,
     delivered |-> delivered,
     err |-> err, wrapped |-> wrapped, threw |-> threw, reports |-> reports,
     stored |-> {r \in recs : r.id \in {x.id : x \in reports}}, made |-> made]

\* the petIds a caller can know: none, one of its own, or one reported to it
Reported == UNION {{x.petId : x \in r.reports} : r \in replies}
KnownPetIds == {""} \cup ForeignIds \cup Reported

\* history: the petIds that saveAnimal calls without petId have reported
CreatedPetIds ==
    UNION {{y.petId : y \in x.reports} :
             x \in {r \in replies : r.call = "saveAnimal" /\ ~r.err /\ r.petId = ""}}

WithPetId(p) == {r \in records : r.petId = p}

\* An upsert that looks the petId up before it decides.
UpsertKindByMatch(petId) ==
    IF WithPetId(petId) # {} THEN "findOneAndUpdate" ELSE "create"

\* animal.js:78, the decision of upsert: a truthy petId updates, else create
UpsertKind(petId) == IF petId # "" THEN "findOneAndUpdate" ELSE "create"

\* animal.js:223-254 with 66-105: saveAnimal runs upsert(query, data, ...)
SaveAnimal(petId, data) ==
    /\ calls < MaxAnimalCalls
    /\ calls' = calls + 1
    /\ pending' = pending \cup
         {[n |-> calls + 1, call |-> "saveAnimal", kind |-> UpsertKind(petId),
           petId |-> petId, data |-> data, rec |-> 0,
           fromCreate |-> petId \in CreatedPetIds]}
    /\ UNCHANGED <<records, nextId, replies, firstPetId, lastApplied>>
    /\ UNCHANGED <<dbVars, crudVars, payloadVars>>

\* animal.js:190-213 with 107-128: findAnimals runs find(query).lean()
FindAnimals ==
    /\ calls < MaxAnimalCalls
    /\ calls' = calls + 1
    /\ pending' = pending \cup
         {[n |-> calls + 1, call |-> "findAnimals", kind |-> "find",
           petId |-> "", data |-> "", rec |-> 0, fromCreate |-> FALSE]}
    /\ UNCHANGED <<records, nextId, replies, firstPetId, lastApplied>>
    /\ UNCHANGED <<dbVars, crudVars, payloadVars>>

\* history: the first non-empty petId stored for each document
NoteFirst(h, recs) ==
    [i \in DOMAIN h \cup {r.id : r \in recs} |->
        IF i \in DOMAIN h /\ h[i] # "" THEN h[i]
        ELSE IF \E r \in recs : r.id = i THEN (CHOOSE r \in recs : r.id = i).petId
        ELSE ""]

\* history: the data of the last saveAnimal applied in the store whose petId
\* matched a stored document at that moment
NoteApplied(o) ==
    IF o.petId # "" /\ WithPetId(o.petId) # {}
    THEN [p \in DOMAIN lastApplied \cup {o.petId} |->
            IF p = o.petId THEN o.data ELSE lastApplied[p]]
    ELSE lastApplied

\* animal.js:67-71, the options upsert hands to findOneAndUpdate
UpsertOptions == [upsert |-> TRUE, new |-> TRUE]

\* animal.js:60-64, the post findOneAndUpdate hook, on the returned document
PostFindOneAndUpdate(doc) == [doc EXCEPT !.petId = IdStr(doc.id)]

\* animal.js:244-246, what saveAnimal reports for the returned document
SaveAnimalReport(doc) == [id |-> doc.id, petId |-> IdStr(doc.id)]

\* animal.js:206-210, what findAnimals reports for each document found
FindAnimalsReport(doc) == [id |-> doc.id, petId |-> IdStr(doc.id)]

\* The hooks added with collection.addMiddleware are run by the store.
PostSaveInstalled == TRUE

\* A post save hook that never re-saves.
PostSaveHookNoResave(petId) == "next"

\* animal.js:46-58, the post save hook: a document without petId gets
\* petId = _id.toString() and is saved again, another is passed on
PostSaveHook(petId) == IF petId = "" THEN "resave" ELSE "next"

\* The store fails the operation: upsert hands the error on (animal.js:82-87,
\* 95-96) and saveAnimal wraps it and calls complete(err) (animal.js:238-241).
SaveFails(o) ==
    /\ o.call = "saveAnimal"
    /\ pending' = pending \ {o}
    /\ replies' = replies \cup {Reply(o, TRUE, 1, TRUE, TRUE, FALSE, {}, {}, records)}
    /\ UNCHANGED <<records, nextId, calls, firstPetId, lastApplied>>
    /\ UNCHANGED <<dbVars, crudVars, payloadVars>>

\* findOneAndUpdate({petId}, data, {upsert, new}).lean() completes: the store
\* updates one matching document in place, or inserts one when none matches;
\* then the post hook, the callback of upsert and the one of saveAnimal run.
StoreFindOneAndUpdate(o) ==
    /\ o.kind = "findOneAndUpdate"
    /\ \E doc \in IF WithPetId(o.petId) # {}
                  THEN {[r EXCEPT !.data = o.data] : r \in WithPetId(o.petId)}
                  ELSE {[id |-> nextId, petId |-> o.petId, data |-> o.data]} :
          /\ UpsertOptions.upsert /\ UpsertOptions.new
          /\ records' = {r \in records : r.id # doc.id} \cup {doc}
          /\ nextId' = IF WithPetId(o.petId) # {} THEN nextId ELSE nextId + 1
          /\ lastApplied' = NoteApplied(o)
          /\ firstPetId' = NoteFirst(firstPetId, records')
          /\ pending' = pending \ {o}
          /\ replies' = replies \cup {Reply(o, FALSE, 1, FALSE, FALSE, FALSE,
                      {SaveAnimalReport(PostFindOneAndUpdate(doc))},
                      IF WithPetId(o.petId) # {} THEN {} ELSE {doc.id}, records')}
    /\ UNCHANGED calls
    /\ UNCHANGED <<dbVars, crudVars, payloadVars>>

\* model.create(saveData) saves the new document; the post save hook then
\* either re-saves it with its petId or lets the callbacks run.
StoreCreate(o) ==
    /\ o.kind = "create"
    /\ records' = records \cup {[id |-> nextId, petId |-> "", data |-> o.data]}
    /\ nextId' = nextId + 1
    /\ lastApplied' = NoteApplied(o)
    /\ firstPetId' = NoteFirst(firstPetId, records')
    /\ IF PostSaveInstalled /\ PostSaveHook("") = "resave"
       THEN /\ pending' = (pending \ {o}) \cup {[o EXCEPT !.kind = "resave", !.rec = nextId]}
            /\ replies' = replies
       ELSE /\ pending' = pending \ {o}
            /\ replies' = replies \cup {Reply(o, FALSE, 1, FALSE, FALSE, FALSE,
                        {SaveAnimalReport([id |-> nextId])}, {nextId}, records')}
    /\ UNCHANGED calls
    /\ UNCHANGED <<dbVars, crudVars, payloadVars>>

\* The save issued by the hook completes: petId = _id.toString() is stored,
\* the hook runs again and passes on, create's callback and saveAnimal's run.
StoreResave(o) ==
    /\ o.kind = "resave"
    /\ records' = {IF r.id = o.rec THEN [r EXCEPT !.petId = IdStr(r.id)] ELSE r : r \in records}
    /\ firstPetId' = NoteFirst(firstPetId, records')
    /\ PostSaveHook(IdStr(o.rec)) = "next"
    /\ pending' = pending \ {o}
    /\ replies' = replies \cup {Reply(o, FALSE, 1, FALSE, FALSE, FALSE, {SaveAnimalReport([id |-> o.rec])}, {o.rec},
                records')}
    /\ UNCHANGED <<nextId, calls, lastApplied>>
    /\ UNCHANGED <<dbVars, crudVars, payloadVars>>

\* find(query).lean() completes with the documents: findAnimals reports each.
StoreFind(o) ==
    /\ o.kind = "find"
    /\ pending' = pending \ {o}
    /\ replies' = replies \cup {Reply(o, FALSE, 1, FALSE, FALSE, FALSE, {FindAnimalsReport(r) : r \in records}, {},
                records)}
    /\ UNCHANGED <<records, nextId, calls, firstPetId, lastApplied>>
    /\ UNCHANGED <<dbVars, crudVars, payloadVars>>

\* find fails: the static hands onComplete(err) on without documents, and the
\* callback of findAnimals evaluates animals.map(...) on undefined before it
\* can call complete (animal.js:201-210): it throws.
FindFails(o) ==
    /\ o.kind = "find"
    /\ pending' = pending \ {o}
    /\ replies' = replies \cup {Reply(o, TRUE, 0, FALSE, FALSE, TRUE, {}, {}, records)}
    /\ UNCHANGED <<records, nextId, calls, firstPetId, lastApplied>>
    /\ UNCHANGED <<dbVars, crudVars, payloadVars>>

NextAnimal ==
    \/ \E p \in KnownPetIds, d \in Names : SaveAnimal(p, d)
    \/ FindAnimals
    \/ \E o \in pending : StoreFindOneAndUpdate(o)
    \/ \E o \in pending : StoreCreate(o)
    \/ \E o \in pending : StoreResave(o)
    \/ \E o \in pending : StoreFind(o)
    \/ \E o \in pending : SaveFails(o)
    \/ \E o \in pending : FindFails(o)

\* --------------------------------------------- the generic CRUD operations
\* index.js:199-316 and timestamped.js:33-59, on a started TimestampedDatabase
\* whose adapter is connected: a call issues its store operation at once.
NoDoc == [id |-> 0, ts |-> 0, data |-> ""]

InitCrud ==
    /\ coll = {}
    /\ collNextId = 1
    /\ clock = 1
    /\ crudPending = {}
    /\ crudLog = {}
    /\ cacheWrites = <<>>
    /\ crudCalls = 0

\* The options argument of a call: none at all, an object carrying complete
\* (and context), or one that also sets upsert: false.
UpdateOptions == {"none", "plain", "noUpsert"}

\* index.js:262-265 and 277: _.defaults fills the caller's options object in
\* place, where the caller left a key unset, and returns it; without an
\* options object it returns a fresh object and options stays undefined.
\* findOneAndUpdate is handed options, not _options: the filled object, or
\* nothing, and then the store's own defaults (no upsert, the document before
\* the update) apply.
UpdateStoreOptions(options) ==
    CASE options = "plain"    -> [upsert |-> TRUE, new |-> TRUE]
      [] options = "noUpsert" -> [upsert |-> FALSE, new |-> TRUE]
      [] options = "none"     -> [upsert |-> FALSE, new |-> FALSE]

CrudOp(call, where, data, options) ==
    [n |-> crudCalls + 1, call |-> call, stage |-> "store", where |-> where,
     data |-> data, options |-> options, hasOptions |-> options # "none",
     doc |-> NoDoc, onEmpty |-> FALSE, storeOpts |-> UpdateStoreOptions(options),
     left |-> 0, delivered |-> 0]

\* findOne, findLatest, create and update each wrap their store operation in
\* a thunk handed to exec, which runs it at once on a started Database.
Call(call, where, data, options) ==
    /\ crudCalls < MaxCalls
    /\ crudCalls' = crudCalls + 1
    /\ crudPending' = crudPending \cup {CrudOp(call, where, data, options)}
    /\ UNCHANGED <<coll, collNextId, clock, crudLog, cacheWrites>>
    /\ UNCHANGED <<dbVars, animalVars, payloadVars>>

CallFindOne(where) == Call("findOne", where, "", "plain")
CallFindLatest == Call("findLatest", "", "", "plain")
CallCreate(data) == Call("create", "", data, "plain")
CallUpdate(where, data, options) == Call("update", where, data, options)

\* Time passes.
Tick ==
    /\ clock < MaxClock
    /\ clock' = clock + 1
    /\ UNCHANGED <<coll, collNextId, crudPending, crudLog, cacheWrites, crudCalls>>
    /\ UNCHANGED <<dbVars, animalVars, payloadVars>>

\* What a call did: whether the store failed it, how often complete was called, whether its first argument
\* was an error, whether that error was a DBError, whether the completion
\* handler threw, and the second argument: "none", "empty" ({}) or "doc".
Outcome(o, storeErr, delivered, err, wrapped, threw, result, doc) ==
    [n |-> o.n, call |-> o.call, storeErr |-> storeErr, delivered |-> delivered, err |-> err,
     wrapped |-> wrapped, threw |-> threw, result |-> result, doc |-> doc,
     onEmpty |-> o.onEmpty, cached |-> o.stage = "cache",
     options |-> o.options, hasOptions |-> o.hasOptions, storeOpts |-> o.storeOpts]

Finish(o, outcome) ==
    /\ crudPending' = crudPending \ {o}
    /\ crudLog' = crudLog \cup {outcome}

\* the store's findOne(props).lean(): one matching document, or none
Matching(where) == {d \in coll : d.data = where}
FoundOne(where) == IF Matching(where) = {} THEN {NoDoc} ELSE Matching(where)

\* the store's findOne({}).sort({timestamp: -1}): a document of greatest timestamp
Latest == IF coll = {} THEN {NoDoc}
          ELSE {d \in coll : \A e \in coll : e.ts <= d.ts}

\* timestamped.js:50-58, what getLatest hands to its callback
GetLatest(storeErr, latestModel) ==
    IF storeErr THEN [err |-> TRUE, doc |-> NoDoc]
    ELSE IF latestModel = NoDoc THEN [err |-> TRUE, doc |-> NoDoc]
    ELSE [err |-> FALSE, doc |-> latestModel]

\* A findLatest whose test is inverted.
FindLatestFailsInverted(res) == ~(res.err \/ res.doc = NoDoc)

\* index.js:234, findLatest: if (err || !doc)
FindLatestFails(res) == res.err \/ res.doc = NoDoc

\* index.js:208-212, the completion of findOne
FindOneDone(o, storeErr, queriedDoc) ==
    Outcome(o, storeErr, 1, storeErr \/ queriedDoc = NoDoc, storeErr \/ queriedDoc = NoDoc, FALSE,
            IF queriedDoc # NoDoc THEN "doc" ELSE "empty", queriedDoc)

\* An update that hands complete the error alone.
UpdateDoneErrorOnly(o, storeErr, savedDoc) ==
    Outcome(o, storeErr, IF o.hasOptions THEN 1 ELSE 0, storeErr, storeErr, FALSE,
            IF storeErr THEN "none" ELSE IF savedDoc # NoDoc THEN "doc" ELSE "empty",
            savedDoc)

\* index.js:279-286, the completion of update; _options.complete exists only
\* when the caller passed an options object carrying it
UpdateDone(o, storeErr, savedDoc) ==
    Outcome(o, storeErr, IF o.hasOptions THEN 1 ELSE 0, storeErr, storeErr, FALSE,
            IF savedDoc # NoDoc THEN "doc" ELSE "empty", savedDoc)

\* index.js:306-314, the completion of create: with an error there is no
\* savedDoc, and savedDoc.toObject throws before complete is reached
CreateDone(o, storeErr, savedDoc) ==
    IF savedDoc = NoDoc THEN Outcome(o, storeErr, 0, FALSE, FALSE, TRUE, "none", NoDoc)
    ELSE Outcome(o, storeErr, 1, storeErr, storeErr, FALSE, "doc", savedDoc)

\* The store fails an operation.
StoreErr(o) ==
    /\ o.stage = "store"
    /\ Finish(o, CASE o.call = "findOne" -> FindOneDone(o, TRUE, NoDoc)
                   [] o.call = "update" -> UpdateDone(o, TRUE, NoDoc)
                   [] o.call = "create" -> CreateDone(o, TRUE, NoDoc)
                   [] o.call = "findLatest" ->
                        \* index.js:234-237: wrapped, logged, complete(err)
                        Outcome(o, TRUE, 1, TRUE, TRUE, FALSE, "none", NoDoc))
    /\ UNCHANGED <<coll, collNextId, clock, cacheWrites, crudCalls>>
    /\ UNCHANGED <<dbVars, animalVars, payloadVars>>

\* findOne(props).lean().exec completes.
StoreFindOne(o) ==
    /\ o.stage = "store" /\ o.call = "findOne"
    /\ \E d \in FoundOne(o.where) : Finish(o, FindOneDone(o, FALSE, d))
    /\ UNCHANGED <<coll, collNextId, clock, cacheWrites, crudCalls>>
    /\ UNCHANGED <<dbVars, animalVars, payloadVars>>

\* doc.save completes: the pre save hook of the timestamp plugin has stamped
\* the document with the time of the save (timestamped.js:35-38).
StoreSave(o) ==
    /\ o.stage = "store" /\ o.call = "create"
    /\ coll' = coll \cup {[id |-> collNextId, ts |-> clock, data |-> o.data]}
    /\ collNextId' = collNextId + 1
    /\ Finish(o, CreateDone(o, FALSE, [id |-> collNextId, ts |-> clock, data |-> o.data]))
    /\ UNCHANGED <<clock, cacheWrites, crudCalls>>
    /\ UNCHANGED <<dbVars, animalVars, payloadVars>>

\* findOneAndUpdate(whereProps, data, options).lean().exec completes: a match
\* is updated in place; without one a document is inserted under upsert only.
\* The document handed back is the new one under new, else the one before.
StoreUpdate(o) ==
    /\ o.stage = "store" /\ o.call = "update"
    /\ LET opts == o.storeOpts IN
       \E old \in FoundOne(o.where) :
          LET new == IF old # NoDoc THEN [old EXCEPT !.data = o.data]
                     ELSE IF opts.upsert THEN [id |-> collNextId, ts |-> 0, data |-> o.data]
                     ELSE NoDoc
          IN /\ coll' = (coll \ {old}) \cup (IF new = NoDoc THEN {} ELSE {new})
             /\ collNextId' = IF old = NoDoc /\ new # NoDoc THEN collNextId + 1 ELSE collNextId
             /\ Finish(o, UpdateDone(o, FALSE, IF opts.new THEN new ELSE old))
    /\ UNCHANGED <<clock, cacheWrites, crudCalls>>
    /\ UNCHANGED <<dbVars, animalVars, payloadVars>>

\* A findLatest that asks for two cache formats.
FindLatestCacheTypesTwo == <<"json", "xml">>

\* index.js:242, the cache formats findLatest asks for
FindLatestCacheTypes == <<"json">>

\* index.js:106-112, cacheData: one cache save per type, each handed the data
\* and the same done
CacheData(types, data) == [i \in 1..Len(types) |-> data]

\* getLatest completes without a store error (index.js:233-248): nothing
\* found is an error; a document found is handed to cacheData, and complete
\* waits for the cache.
StoreLatest(o) ==
    /\ o.stage = "store" /\ o.call = "findLatest"
    /\ \E d \in Latest :
         LET res == GetLatest(FALSE, d)
             oo == [o EXCEPT !.onEmpty = (coll = {})] IN
         IF FindLatestFails(res)
         THEN /\ Finish(o, Outcome(oo, FALSE, 1, TRUE, TRUE, FALSE, "none", NoDoc))
              /\ cacheWrites' = cacheWrites
         ELSE LET saves == CacheData(FindLatestCacheTypes, res.doc) IN
              /\ crudPending' = (crudPending \ {o}) \cup
                                 {[oo EXCEPT !.stage = "cache", !.doc = res.doc,
                                             !.left = Len(saves)]}
              /\ cacheWrites' = cacheWrites \o saves
              /\ crudLog' = crudLog
    /\ UNCHANGED <<coll, collNextId, clock, crudCalls>>
    /\ UNCHANGED <<dbVars, animalVars, payloadVars>>

\* A cache save ends and calls its done(cacheSaveErr), once:
\* complete(cacheSaveErr, doc) (index.js:243-246).
CacheDone(o, cacheSaveErr) ==
    /\ o.stage = "cache"
    /\ o.left > 0
    /\ IF o.left = 1
       THEN Finish(o, Outcome(o, FALSE, o.delivered + 1, cacheSaveErr, FALSE, FALSE,
                              "doc", o.doc))
       ELSE /\ crudPending' = (crudPending \ {o}) \cup
                               {[o EXCEPT !.left = @ - 1, !.delivered = @ + 1]}
            /\ crudLog' = crudLog
    /\ UNCHANGED <<coll, collNextId, clock, cacheWrites, crudCalls>>
    /\ UNCHANGED <<dbVars, animalVars, payloadVars>>

NextCrud ==
    \/ \E w \in Names : CallFindOne(w)
    \/ CallFindLatest
    \/ \E d \in Names : CallCreate(d)
    \/ \E w \in Names, d \in Names, opt \in UpdateOptions : CallUpdate(w, d, opt)
    \/ Tick
    \/ \E o \in crudPending : StoreErr(o)
    \/ \E o \in crudPending : StoreFindOne(o)
    \/ \E o \in crudPending : StoreSave(o)
    \/ \E o \in crudPending : StoreUpdate(o)
    \/ \E o \in crudPending : StoreLatest(o)
    \/ \E o \in crudPending, e \in BOOLEAN : CacheDone(o, e)

\* ------------------------------------------------ the write payload of update
\* index.js:268-277: what update makes of the caller's save payload before it
\* hands it to findOneAndUpdate.
Fields == {"_id", "__v", "name", "species"}
Values == {"a", "b"}

\* the save payloads a caller can pass: any of the fields, each with any value
SaveProps == UNION {[S -> Values] : S \in SUBSET Fields}

NoProps == [f \in {} |-> ""]

\* new MongooseModel(saveProps).toObject(): the document carries the fields it
\* was given and always an _id, a fresh one when the caller gave none
NewDocToObject(props) ==
    [f \in DOMAIN props \cup {"_id"} |->
        IF f \in DOMAIN props THEN props[f] ELSE "fresh"]

\* delete data[field]
Delete(data, field) == [f \in DOMAIN data \ {field} |-> data[f]]

\* A payload from which only _id is deleted.
UpdateDataKeepsVersion(props) == Delete(NewDocToObject(props), "_id")

\* index.js:271-275: data = doc.toObject(); delete data._id; delete data.__v
UpdateData(props) == Delete(Delete(NewDocToObject(props), "_id"), "__v")

InitNoPayload == saveProps = NoProps /\ writePayload = <<>>

InitPayload == saveProps \in SaveProps /\ writePayload = <<>>

\* The thunk of update runs: findOneAndUpdate(whereProps, data, options).
IssueUpdate ==
    /\ writePayload = <<>>
    /\ writePayload' = <<UpdateData(saveProps)>>
    /\ UNCHANGED <<saveProps, dbVars, animalVars, crudVars>>

NextPayload == IssueUpdate

Init == InitDb /\ InitAnimal /\ InitCrud /\ InitNoPayload

InitStore == InitStarted /\ InitAnimal /\ InitCrud /\ InitNoPayload

InitUpdate == InitStarted /\ InitAnimal /\ InitCrud /\ InitPayload

SpecPayload == InitUpdate /\ [][NextPayload]_vars

Spec == Init /\ [][NextDb]_vars

SpecAnimal == InitStore /\ [][NextAnimal]_vars

SpecCrud == InitStore /\ [][NextCrud]_vars

\* the Database together with the clear() of the AnimalDatabase built on it
NextClear ==
    \/ NextDb
    \/ Clear

SpecClear == Init /\ [][NextClear]_vars

\* ------------------------------------------------------------- CRUD properties --
\* C9: findLatest on an empty collection calls complete with an error, never
\* with a null error and an empty or default document, and writes no cache.
C9_EmptyLatestIsError ==
    /\ \A x \in crudLog :
          (x.call = "findLatest" /\ x.onEmpty) =>
              x.delivered = 1 /\ x.err /\ x.result = "none" /\ ~x.cached
    /\ \A o \in crudPending : o.stage = "cache" => ~o.onEmpty /\ o.doc # NoDoc
    /\ \A i \in DOMAIN cacheWrites : cacheWrites[i] # NoDoc

\* C9 witness: a findLatest has completed on the empty collection.
C9_Witness ==
    \E x \in crudLog :
        /\ x.call = "findLatest" /\ x.onEmpty
        /\ x.err /\ x.delivered = 1
        /\ cacheWrites = <<>>

\* C10: whatever operation the store fails, the error reaches the caller's
\* complete as first argument, as a DBError, exactly once, and no completion
\* handler throws.
C10_ErrorsDelivered ==
    /\ \A x \in crudLog :
          /\ ~x.threw
          /\ (x.storeErr /\ x.hasOptions) => x.delivered = 1 /\ x.err /\ x.wrapped
    /\ \A x \in replies :
          /\ ~x.threw
          /\ x.storeErr => x.delivered = 1 /\ x.err /\ x.wrapped

\* ----------------------------------------------------------- animal properties --
Saved == {x \in replies : x.call = "saveAnimal" /\ ~x.err}

C8_PetIdNeverChanges ==
    /\ \A r \in records : firstPetId[r.id] # "" => r.petId = firstPetId[r.id]
    /\ \A x \in replies : \A y \in x.reports :
          (y.id \in DOMAIN firstPetId /\ firstPetId[y.id] # "") =>
              y.petId = firstPetId[y.id]

\* ------------------------------------------------------------ queue properties --
RECURSIVE FirstOccurrences(_, _)
FirstOccurrences(s, seen) ==
    IF s = <<>> THEN <<>>
    ELSE IF Head(s) \in seen THEN FirstOccurrences(Tail(s), seen)
    ELSE <<Head(s)>> \o FirstOccurrences(Tail(s), seen \cup {Head(s)})

IsPrefix(a, b) == Len(a) <= Len(b) /\ a = SubSeq(b, 1, Len(a))
IsPre(t) == thunks[t].pre
IsCrud(t) == thunks[t].kind \in {"op", "inner"}

InvokedIds == [i \in DOMAIN invoked |-> invoked[i].t]
ThunkIds == [i \in DOMAIN thunks |-> i]
\* the exec calls made before the adapter was first connected, in call order
PreOrder == SelectSeq(ThunkIds, IsPre)
\* the same thunks in the order of their first invocation
PreInvoked == SelectSeq(FirstOccurrences(InvokedIds, {}), IsPre)

\* C1: the thunks passed to exec before the adapter is connected are invoked,
\* and their store operations issued, in the order of the exec calls, none
\* skipped and none out of order; once the adapter has connected and the
\* connect handler has started the Database and returned, all of them have run.
C1_PreConnectFifo ==
    /\ IsPrefix(PreInvoked, PreOrder)
    /\ IsPrefix(SelectSeq(issued, IsPre), SelectSeq(PreOrder, IsCrud))
    /\ (everConnected /\ Idle) =>
          /\ PreInvoked = PreOrder
          /\ SelectSeq(issued, IsPre) = SelectSeq(PreOrder, IsCrud)

\* C1 witness: three exec calls before the first connect, all drained in order.
C1_Witness ==
    /\ everConnected /\ Idle
    /\ Len(PreOrder) = MaxExec
    /\ PreInvoked = PreOrder
    /\ Len(SelectSeq(issued, IsPre)) >= 2

\* C2: a thunk is invoked only while the adapter is connected and the Database
\* is active, for every entry of a drain pass.
C2_InvokedOnlyConnectedActive ==
    \A i \in DOMAIN invoked : invoked[i].conn /\ invoked[i].act

\* C3: every thunk is invoked at most once, and the thunks run in the order
\* they were appended, also when a draining thunk calls exec re-entrantly.
C3_AtMostOnce ==
    /\ \A i, j \in DOMAIN invoked : i # j => invoked[i].t # invoked[j].t
    /\ \A i, j \in DOMAIN invoked : i < j => invoked[i].t < invoked[j].t

\* C4: no entry is dropped (a thunk is in the queue until it has been invoked)
\* and none is left waiting once the adapter is connected and the Database is
\* active and no handler is running: no further exec call is needed.
C4_NothingWaitsOrIsLost ==
    /\ \A t \in DOMAIN thunks :
          \/ \E i \in DOMAIN queue : queue[i] = t
          \/ \E i \in DOMAIN invoked : invoked[i].t = t
    /\ (Idle /\ CanDrain) => queue = <<>>

\* C5 as stated: at most one store operation of the queue is outstanding.
C5_AtMostOneOutstanding == Cardinality(outstanding) <= 1

\* C5 as amended: the store operations are issued one after the other in the
\* order their entries were enqueued, each at the invocation of its thunk
\* whatever is still outstanding; the queue never waits for a completion.
C5_IssuedInOrderWithoutWaiting ==
    /\ \A i, j \in DOMAIN issued : i < j => issued[i] < issued[j]
    /\ Idle => \A i \in DOMAIN invoked : IsCrud(invoked[i].t) =>
                  \E j \in DOMAIN issued : issued[j] = invoked[i].t

\* C5 witness: a later entry's operation was issued while two earlier ones
\* were still outstanding.
C5_Witness == Idle /\ Cardinality(outstanding) = 3 /\ Len(issued) = 3
\* C11: an update whose caller names neither upsert nor new, with or without
\* an options object, is issued to the store with upsert = true and new = true.
C11_UpdateDefaultsAlways ==
    \A o \in crudPending \cup crudLog :
        (o.call = "update" /\ o.options \in {"none", "plain"}) =>
            o.storeOpts = [upsert |-> TRUE, new |-> TRUE]

KickNext == ~Idle /\ Top.k = "run" /\ Top.rest # <<>> /\ Head(Top.rest).op = "kick"

\* C14: exec with no function on an inactive Database invokes no thunk and
\* leaves the queue as it is; at most it calls connect() on a closed adapter.
C14_KickWhileInactive ==
    [][(KickNext /\ ~isActive) =>
          /\ queue' = queue /\ thunks' = thunks
          /\ invoked' = invoked /\ issued' = issued
          /\ stack' = Consumed
          /\ isActive' = isActive /\ modelReady' = modelReady
          /\ \/ adapterState' = adapterState
             \/ adapterState = "closed" /\ adapterState' = "connecting"]_vars

\* C14 witness: the caller's exec() on an inactive Database with a closed
\* adapter and a waiting entry has run: the entry waits, a connect is under way.
C14_Witness ==
    /\ Len(stack) = 1 /\ Top.of = "kick" /\ Top.rest = <<>>
    /\ ~isActive /\ queue # <<>>
    /\ everConnected /\ adapterState = "connecting"

C16_NoResultIsError ==
    \A x \in crudLog :
        (x.hasOptions /\ ~x.storeErr /\ x.doc = NoDoc) =>
            x.delivered = 1 /\ x.err /\ x.wrapped

Reads == {"findOne", "findLatest"}

CacheWritten == {cacheWrites[i] : i \in DOMAIN cacheWrites}

\* C18: a findLatest that found a document hands it to the cache before
\* complete is called, and complete is called exactly once, when the cache
\* save has ended, with the cache's error or none and with the document,
\* whether the cache save failed or not.
C18_CacheThenComplete ==
    /\ \A o \in crudPending :
          o.stage = "cache" => o.delivered = 0 /\ o.left = 1 /\ o.doc \in CacheWritten
    /\ \A x \in crudLog :
          (x.call = "findLatest" /\ x.doc # NoDoc) =>
              /\ x.cached /\ x.doc \in CacheWritten
              /\ x.delivered = 1 /\ x.result = "doc" /\ ~x.wrapped
    /\ \A x \in crudLog :
          (x.call = "findLatest" /\ ~x.storeErr /\ ~x.onEmpty) => x.doc # NoDoc
    /\ Len(cacheWrites) =
          Cardinality({o \in crudPending : o.stage = "cache"})
          + Cardinality({x \in crudLog : x.cached})

\* C18 witness: two findLatest calls have delivered the document, one with
\* the cache's error and one without.
C18_Witness ==
    \E x, y \in crudLog :
        /\ x.call = "findLatest" /\ x.cached /\ x.err /\ x.result = "doc"
        /\ y.call = "findLatest" /\ y.cached /\ ~y.err /\ y.result = "doc"

\* C19: upsert decides by the petId of the search criteria alone.  With a
\* petId it issues one find-and-update keyed by that petId and never the
\* create; without one it issues one create, without any lookup, which makes
\* a new document even when one with the same data is stored.
C19_UpsertByPetId ==
    /\ \A o \in pending :
          o.call = "saveAnimal" =>
              IF o.petId # "" THEN o.kind = "findOneAndUpdate"
              ELSE o.kind \in {"create", "resave"}
    /\ \A x \in Saved :
          IF x.petId # ""
          THEN /\ x.kind = "findOneAndUpdate"
               /\ Cardinality(x.stored) = 1
               /\ \A r \in x.stored : r.petId = x.petId /\ r.data = x.data
          ELSE /\ x.kind \in {"create", "resave"}
               /\ Cardinality(x.made) = 1
               /\ x.made = {r.id : r \in x.stored}

\* C19 witness: a create has made a second document with the data of a
\* stored one, and a save with a petId has gone through find-and-update.
C19_Witness ==
    /\ \E x \in Saved, r \in records :
          x.petId = "" /\ r.data = x.data /\ \A m \in x.made : r.id < m
    /\ \E y \in Saved : y.petId # "" /\ y.kind = "findOneAndUpdate"

\* C20: a saveAnimal carrying the petId that an earlier saveAnimal without
\* petId reported for the document it created updates that document and
\* makes no other, however often it is repeated.
C20_ResaveInPlace ==
    \A y \in Saved :
        y.fromCreate =>
            /\ y.made = {}
            /\ y.stored # {}
            /\ \A r \in y.stored : IdStr(r.id) = y.petId /\ r.data = y.data

\* -------------------------------------------------------- timestamp properties --
\* C21: every document a create or an update writes to the store carries
\* the time at which the store write ran, and every document findLatest
\* goes on with has a timestamp no smaller than that of any stored one.
C21_StampedAtSave ==
    [][/\ \A d \in coll' \ coll : d.ts = clock
       /\ \A o \in crudPending' \ crudPending :
              o.stage = "cache" => \A e \in coll : e.ts <= o.doc.ts]_vars

\* ------------------------------------------------------------ gating properties --
\* C22: every store operation of a public method is issued by a thunk that
\* exec invoked, none outside one, and none while the adapter is not
\* connected or the Database is not active.
C22_IssuedInsideThunk ==
    /\ \A i \in DOMAIN issued :
          \E j \in DOMAIN invoked :
              invoked[j].t = issued[i] /\ invoked[j].conn /\ invoked[j].act
    /\ cleared = <<>>

\* C23: whenever a queued thunk is invoked, the Database's store model has
\* already been generated, whatever the order of start(), exec and the
\* adapter's connect-success notification.
C23_ModelBeforeThunks ==
    \A i \in DOMAIN invoked : invoked[i].model

\* C23 witness: start() was called before the adapter connected, thunks were
\* queued meanwhile, and they have been invoked.
C23_Witness ==
    /\ Idle
    /\ \E i \in DOMAIN invoked : thunks[invoked[i].t].pre /\ thunks[invoked[i].t].kind = "op"
    /\ Len(invoked) >= 2
====
